---- MODULE Spec2Model ----
(***************************************************************************)
(* fork_shim.c: an LD_PRELOAD shim that wraps fork().  After the real      *)
(* fork() returns in the parent, the shim reads /proc/<pid>/cmdline of the *)
(* child, checks every argument against /etc/oom_whitelist                 *)
(* (check_wl_config) and writes -1000 or 1000 to /proc/<pid>/oom_score_adj.*)
(*                                                                         *)
(* Strings are sequences of one-character strings.  A C string pointer     *)
(* that is NULL is the value NullStr.                                      *)
(***************************************************************************)
EXTENDS Integers, Sequences, FiniteSets, TLC

VARIABLES
    wl,          \* content of /etc/oom_whitelist (a sequence of characters)
    wlState,     \* "ok", "absent" (access() fails) or "unopenable" (fopen() fails)
    cmdline,     \* [Pids -> content of /proc/<pid>/cmdline], NUL-delimited
    alive,       \* [Pids -> BOOLEAN]: the child's /proc entries still exist
    issued,      \* pids the real fork() has handed out so far
    score,       \* [Pids -> sequence of the values written to oom_score_adj]
    shimLog,     \* records appended to /tmp/shim_forks.log
    strtokSave,  \* strtok()'s static save pointer: the text left to tokenise
    th           \* [Threads -> the locals of fork() and check_wl_config()]

vars == <<wl, wlState, cmdline, alive, issued, score, shimLog, strtokSave, th>>

-----------------------------------------------------------------------------
(* Bounds of the model *)

\* longest whitelist file of the check_wl_config specification
MaxWlLen == 7
\* longest candidate of the check_wl_config specification
MaxCandLen == 2
\* most characters one fgets() call stores; the program's value is 127
\* (fgets(wl_proc_name, sizeof(wl_proc_name)-1, ...) with a 129 byte buffer)
FgetsMax == 3
\* longest /proc/<pid>/cmdline of the fork() specification
MaxCmdLen == 5

(* Program constants *)
oomValue == 1000
whitelistValue == -1000
FileNameSize == 26
CmdFileNameSize == 20

Threads == {1, 2}
SmallPid == 4242
OtherPid == 777
BigPid == 123456
Pids == {SmallPid, OtherPid, BigPid}

NUL == "NUL"
NL == "\n"
NullStr == <<"(null)">>
Uninit == <<"(uninitialised)">>

-----------------------------------------------------------------------------
(* String library: the libc functions the shim calls *)

Min(a, b) == IF a < b THEN a ELSE b

\* all sequences over S of length at most n
RECURSIVE StringsUpTo(_, _)
StringsUpTo(S, n) ==
    IF n = 0 THEN {<<>>}
    ELSE LET shorter == StringsUpTo(S, n - 1)
         IN  shorter \cup {Append(s, c) : s \in {x \in shorter : Len(x) = n - 1}, c \in S}

\* strstr(hay, needle) != NULL
StrStr(hay, needle) ==
    \E i \in 0..(Len(hay) - Len(needle)) : SubSeq(hay, i + 1, i + Len(needle)) = needle

\* index of the first occurrence of c in s at or after position from, 0 if none
IndexFrom(s, c, from) ==
    IF \E i \in from..Len(s) : s[i] = c
    THEN CHOOSE i \in from..Len(s) : s[i] = c /\ \A j \in from..(i - 1) : s[j] # c
    ELSE 0

\* strrchr(s, c): index of the last occurrence of c in s, 0 if none
StrRChr(s, c) ==
    IF \E i \in 1..Len(s) : s[i] = c
    THEN CHOOSE i \in 1..Len(s) : s[i] = c /\ \A j \in (i + 1)..Len(s) : s[j] # c
    ELSE 0

\* snprintf(dst, size, "%s", s): at most size-1 characters are stored
Snprintf(size, s) == SubSeq(s, 1, Min(Len(s), size - 1))

\* fgets(buf, n, f) at file position pos (1-based), n-1 = max characters:
\* the characters up to and including the next newline, at most max of them
Fgets(f, pos, max) ==
    LET nl   == IndexFrom(f, NL, pos)
        stop == IF nl # 0 /\ nl <= pos + max - 1 THEN nl ELSE Min(Len(f), pos + max - 1)
    IN  SubSeq(f, pos, stop)

-----------------------------------------------------------------------------
(* Thread-local state: the locals of one fork() call and of the            *)
(* check_wl_config() call it is in.  File handles are "none" (not opened   *)
(* yet), "open", "null" (fopen() returned NULL) or "closed".               *)

Frame0 ==
    [ pc |-> "idle", pid |-> 0, ret |-> 0,
      logFile |-> "none", oomFile |-> "none", cmdFile |-> "none",
      cmdPos |-> 1, cmdArg |-> NullStr, token |-> NullStr,
      retTo |-> "none", proc_name |-> NullStr,
      wlLogFile |-> "none", whitelist_file |-> "none", wlPos |-> 1,
      catch_bad_things |-> 0, last |-> Uninit, wlRet |-> 0,
      hit |-> <<>>,       \* the chunk whose entry matched, when wlRet = 1
      pat |-> NullStr,    \* the pattern of the last strcmp()/strstr(), if any
      gone |-> 0,         \* the probe (1 or 2) at which the child was gone, else 0
      checks |-> <<>>,    \* <<candidate, result>> of every finished check_wl_config
      probes |-> 0,       \* access() calls on /proc made so far
      reads |-> 0,        \* getdelim() calls made so far
      freed |-> <<>>,     \* the pointers passed to free()
      nopen |-> 0,        \* handles opened and not yet closed
      crash |-> "" ]

Set(t, f) == [th EXCEPT ![t] = f]

Crash(f, why) == [f EXCEPT !.pc = "crashed", !.crash = why]

-----------------------------------------------------------------------------
(* check_wl_config(proc_name) *)

\* mutant of Truncated: the check for a missing newline is left out
NeverTruncated(chunk) == FALSE

\* line 142: !strstr(wl_proc_name, "\n")
Truncated(chunk) == ~ \E i \in 1..Len(chunk) : chunk[i] = NL

\* line 149 and 152: empty lines and lines that are punched out are skipped
Skipped(line) == Len(line) = 0 \/ line[1] = "#"

\* line 155: (last[strlen(last)-1] != '\n') && (catch_bad_things > 0).
\* last is read before it was ever written when no entry was processed yet:
\* garbage is then what the stack happens to hold.
Rollover(last, cbt, garbage) ==
    /\ IF last = Uninit THEN garbage ELSE last[Len(last)] # NL
    /\ cbt > 0

\* line 161
IsExact(line) == line[1] = "!"

\* line 162: memmove(wl_proc_name, wl_proc_name+1, ...) rewinds over the bang
ExactPattern(line) == Tail(line)

\* line 162-163: memmove over the bang, then !strcmp(wl_proc_name, proc_name)
ExactMatch(line, p) == ExactPattern(line) = p

\* line 171: strstr(wl_proc_name, proc_name) != NULL
SubMatch(line, p) == StrStr(line, p)

\* lines 121-139: open the log and the whitelist
WlEnter(t) ==
    LET f == th[t] IN
    /\ f.pc = "wl_enter"
    /\ \E logOk \in BOOLEAN :
        LET f1 == [f EXCEPT !.wlLogFile = IF logOk THEN "open" ELSE "null",
                            !.nopen = @ + (IF logOk THEN 1 ELSE 0),
                            !.whitelist_file = "none", !.wlPos = 1,
                            !.catch_bad_things = 0, !.last = Uninit,
                            !.hit = <<>>, !.pat = NullStr]
        IN  th' = Set(t,
              IF wlState # "ok"
              THEN \* lines 129-138: fclose(logFile); return(0)
                   IF logOk
                   THEN [f1 EXCEPT !.wlLogFile = "closed", !.nopen = @ - 1,
                                   !.wlRet = 0, !.pc = "wl_ret",
                                   !.checks = Append(@, <<f.proc_name, 0>>)]
                   ELSE Crash(f1, "fclose(NULL)")
              ELSE \* line 139: fprintf(logFile, ...); a NULL proc_name prints "(null)"
                   IF logOk
                   THEN [f1 EXCEPT !.whitelist_file = "open", !.nopen = @ + 1,
                                   !.pc = "wl_loop"]
                   ELSE Crash([f1 EXCEPT !.whitelist_file = "open", !.nopen = @ + 1],
                              "fprintf(NULL)"))
    /\ UNCHANGED <<wl, wlState, cmdline, alive, issued, score, shimLog, strtokSave>>

\* lines 140-184: one fgets() and the loop body applied to what it read
WlLine(t) ==
    LET f     == th[t]
        p     == f.proc_name
        chunk == Fgets(wl, f.wlPos, FgetsMax)
        real  == Snprintf(FgetsMax + 1, chunk)
        line  == SubSeq(chunk, 1, Len(chunk) - 1)
        next  == [f EXCEPT !.wlPos = @ + Len(chunk)]
        used  == IF IsExact(line) THEN ExactPattern(line) ELSE line
        found == [next EXCEPT !.wlLogFile = "closed", !.nopen = @ - 1,
                              !.wlRet = 1, !.pc = "wl_ret", !.hit = chunk,
                              !.pat = used,
                              !.checks = Append(@, <<p, 1>>)]
        miss  == [next EXCEPT !.last = real, !.catch_bad_things = @ + 1,
                              !.pat = used]
    IN
    /\ f.pc = "wl_loop"
    /\ \E garbage \in (IF f.last = Uninit THEN BOOLEAN ELSE {FALSE}) :
        th' = Set(t,
          IF f.wlPos > Len(wl)
          THEN \* fgets() returned NULL; lines 182-183
               [f EXCEPT !.wlLogFile = "closed", !.nopen = @ - 1,
                         !.wlRet = 0, !.pc = "wl_ret",
                         !.checks = Append(@, <<p, 0>>)]
          ELSE IF Truncated(chunk)
          THEN [next EXCEPT !.catch_bad_things = @ + 1]
          ELSE IF Skipped(line)
          THEN next
          ELSE IF Rollover(f.last, f.catch_bad_things, garbage)
          THEN [next EXCEPT !.last = real]
          ELSE IF p = NullStr
          THEN Crash(next, IF IsExact(line) THEN "strcmp(NULL)" ELSE "strstr(NULL)")
          ELSE IF IsExact(line)
          THEN (IF ExactMatch(line, p) THEN found ELSE miss)
          ELSE (IF SubMatch(line, p) THEN found ELSE miss))
    /\ UNCHANGED <<wl, wlState, cmdline, alive, issued, score, shimLog, strtokSave>>

NextWl == \E t \in Threads : WlEnter(t) \/ WlLine(t)

\* the characters of the whitelists and candidates that are enumerated
WlChars == {"a", "!", "#", NL}
CandChars == {"a"}

\* check_wl_config on its own: thread 1 is about to check a candidate
InitWl ==
    /\ \/ wlState = "ok" /\ wl \in StringsUpTo(WlChars, MaxWlLen)
       \/ wlState \in {"absent", "unopenable"} /\ wl = <<>>
    /\ cmdline = [p \in Pids |-> <<>>]
    /\ alive = [p \in Pids |-> FALSE]
    /\ issued = {}
    /\ score = [p \in Pids |-> <<>>]
    /\ shimLog = <<>>
    /\ strtokSave = NullStr
    /\ \E c \in StringsUpTo(CandChars, MaxCandLen) :
         th = [t \in Threads |->
                 IF t = 1 THEN [Frame0 EXCEPT !.pc = "wl_enter", !.proc_name = c]
                 ELSE Frame0]

SpecWl == InitWl /\ [][NextWl]_vars

-----------------------------------------------------------------------------
(* fork() *)

\* decimal digits of n, with the sign ("%d")
RECURSIVE Digits(_)
Digits(n) == IF n < 0 THEN 1 + Digits(0 - n)
             ELSE IF n < 10 THEN 1 ELSE 1 + Digits(n \div 10)

\* lines 62-63: snprintf(buf, size, "/proc/%d/<name>", pid) stores the whole
\* path iff it fits in size-1 characters; nameLen is strlen("/proc//<name>")
PathComplete(pid, nameLen, size) == nameLen + Digits(pid) <= size - 1

OomNameLen == 20
CmdNameLen == 14

\* the child whose pid the real fork() returned no longer exists
ChildGone(pid) == pid \in Pids /\ ~ alive[pid]

\* mutant of ProcFileExists: the probe no longer notices that the child is gone
ProcFileAssumed(pid, nameLen, size) ==
    pid \in Pids /\ PathComplete(pid, nameLen, size)

\* access(path, F_OK) != -1 for a path built for pid
ProcFileExists(pid, nameLen, size) ==
    /\ pid \in Pids
    /\ alive[pid]
    /\ PathComplete(pid, nameLen, size)

\* mutant of IsParentSide: the branch tests for a failed fork() instead
ForkSucceeded(pid) == pid # -1

\* line 56: the branch that separates the parent from the child
IsParentSide(pid) == pid # 0

\* mutant of ReturnValue: "return 0" in place of "return pid"
ReturnZero(pid) == 0

\* lines 60, 96, 106, 113, 118: every return statement is "return pid"
ReturnValue(pid) == pid

\* mutant of Getdelim: the delimiter is the newline (getline) instead of NUL
GetdelimNewline(content, pos) ==
    LET nl == IndexFrom(content, NL, pos)
    IN  IF nl = 0 THEN [arg |-> SubSeq(content, pos, Len(content)), pos |-> Len(content) + 1]
        ELSE [arg |-> SubSeq(content, pos, nl - 1), pos |-> nl + 1]

\* getdelim(&cmdArg, &size, 0, cmdFile): the characters up to the next NUL
\* at or after pos; the record holds the argument and the next position
Getdelim(content, pos) ==
    LET nul == IndexFrom(content, NUL, pos)
    IN  IF nul = 0 THEN [arg |-> SubSeq(content, pos, Len(content)), pos |-> Len(content) + 1]
        ELSE [arg |-> SubSeq(content, pos, nul - 1), pos |-> nul + 1]

\* strtok(s, " ") on the text s: the first token and what is left for the
\* next call (the static save pointer)
StrTok(s) ==
    IF \A i \in 1..Len(s) : s[i] = " "
    THEN [token |-> NullStr, save |-> <<>>]
    ELSE LET start == CHOOSE i \in 1..Len(s) : s[i] # " " /\ \A j \in 1..(i - 1) : s[j] = " "
             stop  == IndexFrom(s, " ", start)
         IN  IF stop = 0
             THEN [token |-> SubSeq(s, start, Len(s)), save |-> <<>>]
             ELSE [token |-> SubSeq(s, start, stop - 1), save |-> SubSeq(s, stop + 1, Len(s))]

\* lines 82-85: strrchr(cmdArg, '/') and the memmove over that slash
AfterSlash(arg) == SubSeq(arg, StrRChr(arg, "/") + 1, Len(arg))

\* fprintf(oomFile, "%i\n", v); fclose(oomFile): the kernel takes the value
\* only while the process exists
WriteScore(pid, v) ==
    IF pid \in Pids /\ alive[pid]
    THEN [score EXCEPT ![pid] = Append(@, v)]
    ELSE score

\* line 91 and 102: the value written on a whitelist match
ExemptScore == whitelistValue

\* mutant of StandardScore: the two values are swapped
StandardScoreSwapped == whitelistValue

\* line 111: the value written when nothing matched
StandardScore == oomValue

\* lines 48-61
ForkEntry(t) ==
    LET f == th[t] IN
    /\ f.pc = "entry"
    /\ \E logOk \in BOOLEAN, p \in {-1, 0} \cup (Pids \ issued) :
        LET f1 == [f EXCEPT !.logFile = IF logOk THEN "open" ELSE "null",
                            !.nopen = @ + (IF logOk THEN 1 ELSE 0),
                            !.pid = p]
        IN
        /\ issued' = IF p \in Pids THEN issued \cup {p} ELSE issued
        /\ alive' = IF p \in Pids THEN [alive EXCEPT ![p] = TRUE] ELSE alive
        /\ IF IsParentSide(p)
           THEN IF logOk
                THEN /\ shimLog' = Append(shimLog, p)
                     /\ th' = Set(t, [f1 EXCEPT !.logFile = "closed", !.nopen = @ - 1,
                                                !.pc = "probe_oom"])
                ELSE /\ shimLog' = shimLog
                     /\ th' = Set(t, Crash(f1, "fprintf(NULL)"))
           ELSE /\ shimLog' = shimLog
                /\ th' = Set(t, [f1 EXCEPT !.ret = ReturnValue(p), !.pc = "done"])
    /\ UNCHANGED <<wl, wlState, cmdline, score, strtokSave>>

\* lines 62-66: the first probe, and fopen(fileName, "w")
ProbeOom(t) ==
    LET f == [th[t] EXCEPT !.gone = IF ChildGone(th[t].pid) THEN 1 ELSE @] IN
    /\ f.pc = "probe_oom"
    /\ IF ProcFileExists(f.pid, OomNameLen, FileNameSize)
       THEN \E ok \in BOOLEAN :
              th' = Set(t, [f EXCEPT !.probes = @ + 1,
                                     !.oomFile = IF ok THEN "open" ELSE "null",
                                     !.nopen = @ + (IF ok THEN 1 ELSE 0),
                                     !.pc = "probe_cmd"])
       ELSE th' = Set(t, [f EXCEPT !.probes = @ + 1,
                                   !.ret = ReturnValue(f.pid), !.pc = "done"])
    /\ UNCHANGED <<wl, wlState, cmdline, alive, issued, score, shimLog, strtokSave>>

\* lines 69-75: the second probe, and fopen(cmdFileName, "rb")
ProbeCmd(t) ==
    LET f == [th[t] EXCEPT !.gone = IF ChildGone(th[t].pid) THEN 2 ELSE @] IN
    /\ f.pc = "probe_cmd"
    /\ IF ProcFileExists(f.pid, CmdNameLen, CmdFileNameSize)
       THEN \E ok \in BOOLEAN :
              th' = Set(t, [f EXCEPT !.probes = @ + 1,
                                     !.cmdFile = IF ok THEN "open" ELSE "null",
                                     !.nopen = @ + (IF ok THEN 1 ELSE 0),
                                     !.cmdPos = 1, !.cmdArg = NullStr,
                                     !.pc = "getdelim"])
       ELSE th' = Set(t, [f EXCEPT !.probes = @ + 1,
                                   !.ret = ReturnValue(f.pid), !.pc = "done"])
    /\ UNCHANGED <<wl, wlState, cmdline, alive, issued, score, shimLog, strtokSave>>

\* lines 76-86 and 100-101: read the next argument; tokenise it when it
\* begins with a slash, pass it to check_wl_config otherwise
ReadArg(t) ==
    LET f    == th[t]
        data == IF alive[f.pid] THEN cmdline[f.pid] ELSE <<>>
        r    == Getdelim(data, f.cmdPos)
        tok  == StrTok(AfterSlash(r.arg))
        f1   == [f EXCEPT !.reads = @ + 1]
    IN
    /\ f.pc = "getdelim"
    /\ IF f.cmdFile = "null"
       THEN /\ th' = Set(t, Crash(f, "getdelim(NULL)"))
            /\ strtokSave' = strtokSave
       ELSE IF f.cmdPos > Len(data)
       THEN /\ th' = Set(t, [f1 EXCEPT !.pc = "standard"])
            /\ strtokSave' = strtokSave
       ELSE IF Len(r.arg) > 0 /\ r.arg[1] = "/"
       THEN /\ th' = Set(t, [f1 EXCEPT !.cmdPos = r.pos, !.cmdArg = r.arg,
                                       !.token = tok.token, !.pc = "tokloop"])
            /\ strtokSave' = tok.save
       ELSE /\ th' = Set(t, [f1 EXCEPT !.cmdPos = r.pos, !.cmdArg = r.arg,
                                       !.proc_name = r.arg, !.retTo = "plain",
                                       !.pc = "wl_enter"])
            /\ strtokSave' = strtokSave
    /\ UNCHANGED <<wl, wlState, cmdline, alive, issued, score, shimLog>>

\* lines 88-90: while (token) { token = strtok(NULL, " "); check_wl_config(token) ...
TokLoop(t) ==
    LET f   == th[t]
        tok == StrTok(strtokSave)
    IN
    /\ f.pc = "tokloop"
    /\ IF f.token = NullStr
       THEN /\ th' = Set(t, [f EXCEPT !.pc = "getdelim"])
            /\ strtokSave' = strtokSave
       ELSE /\ th' = Set(t, [f EXCEPT !.token = tok.token, !.proc_name = tok.token,
                                      !.retTo = "slash", !.pc = "wl_enter"])
            /\ strtokSave' = tok.save
    /\ UNCHANGED <<wl, wlState, cmdline, alive, issued, score, shimLog>>

\* lines 90-97 and 101-107: what fork() does with check_wl_config's result.
\* free(token) frees a pointer into the buffer free(cmdArg) just released:
\* the allocator aborts or the call survives.
AfterCheck(t) ==
    LET f == th[t] IN
    /\ f.pc = "wl_ret"
    /\ f.retTo \in {"slash", "plain"}
    /\ IF f.wlRet = 1
       THEN IF f.oomFile = "null"
            THEN /\ th' = Set(t, Crash(f, "fprintf(NULL)"))
                 /\ score' = score
            ELSE /\ score' = WriteScore(f.pid, ExemptScore)
                 /\ \E survives \in (IF f.retTo = "slash" THEN BOOLEAN ELSE {TRUE}) :
                      LET f1 == [f EXCEPT !.oomFile = "closed", !.nopen = @ - 1,
                                          !.freed = IF f.retTo = "slash"
                                                    THEN @ \o <<"cmdArg", "token">>
                                                    ELSE Append(@, "cmdArg")]
                      IN  th' = Set(t,
                            IF survives
                            THEN [f1 EXCEPT !.cmdFile = "closed", !.nopen = @ - 1,
                                            !.ret = ReturnValue(f.pid), !.pc = "done"]
                            ELSE Crash(f1, "free(): invalid pointer"))
       ELSE /\ th' = Set(t, [f EXCEPT !.pc = IF f.retTo = "slash" THEN "tokloop"
                                             ELSE "getdelim"])
            /\ score' = score
    /\ UNCHANGED <<wl, wlState, cmdline, alive, issued, shimLog, strtokSave>>

\* lines 110-113: nothing matched
Standard(t) ==
    LET f  == th[t]
        f1 == [f EXCEPT !.cmdFile = "closed", !.nopen = @ - 1]
    IN
    /\ f.pc = "standard"
    /\ IF f.oomFile = "null"
       THEN /\ th' = Set(t, Crash(f1, "fprintf(NULL)"))
            /\ score' = score
       ELSE /\ score' = WriteScore(f.pid, StandardScore)
            /\ th' = Set(t, [f1 EXCEPT !.oomFile = "closed", !.nopen = @ - 1,
                                       !.ret = ReturnValue(f.pid), !.pc = "done"])
    /\ UNCHANGED <<wl, wlState, cmdline, alive, issued, shimLog, strtokSave>>

\* the child exits (or its /proc entries go away) whenever it likes
ChildExit(p) ==
    /\ p \in issued
    /\ alive[p]
    /\ alive' = [alive EXCEPT ![p] = FALSE]
    /\ UNCHANGED <<wl, wlState, cmdline, issued, score, shimLog, strtokSave, th>>

Next ==
    \/ \E t \in Threads :
         \/ ForkEntry(t) \/ ProbeOom(t) \/ ProbeCmd(t) \/ ReadArg(t)
         \/ TokLoop(t) \/ AfterCheck(t) \/ Standard(t)
         \/ WlEnter(t) \/ WlLine(t)
    \/ \E p \in Pids : ChildExit(p)

\* the inputs of the fork() specification
CmdChars == {"a", "/", " ", NUL}
CmdLines == {c \in StringsUpTo(CmdChars, MaxCmdLen) : c = <<>> \/ c[Len(c)] = NUL}
ForkWhitelists ==
    { <<>>, <<"a", NL>>, <<"!", "a", NL>>, <<"#", NL>>, <<"a">> }

\* one host thread is about to call fork(); a fresh child has its parent's
\* command line
Init ==
    /\ \/ wlState = "ok" /\ wl \in ForkWhitelists
       \/ wlState \in {"absent", "unopenable"} /\ wl = <<>>
    /\ \E c \in CmdLines : cmdline = [p \in Pids |-> c]
    /\ alive = [p \in Pids |-> FALSE]
    /\ issued = {}
    /\ score = [p \in Pids |-> <<>>]
    /\ shimLog = <<>>
    /\ strtokSave = NullStr
    /\ th = [t \in Threads |-> IF t = 1 THEN [Frame0 EXCEPT !.pc = "entry"] ELSE Frame0]

Spec == Init /\ [][Next]_vars

\* two host threads are about to call fork() at the same time; their
\* children have command lines of their own
ConcCmdLine ==
    [p \in Pids |->
        IF p = SmallPid THEN <<"/", "a", " ", "a", NUL>>
        ELSE IF p = OtherPid THEN <<"/", "b", " ", "b", NUL>>
        ELSE <<"b", NUL>>]

InitConc ==
    /\ wlState = "ok"
    /\ wl \in {<<>>, <<"a", NL>>}
    /\ cmdline = ConcCmdLine
    /\ alive = [p \in Pids |-> FALSE]
    /\ issued = {}
    /\ score = [p \in Pids |-> <<>>]
    /\ shimLog = <<>>
    /\ strtokSave = NullStr
    /\ th = [t \in Threads |-> [Frame0 EXCEPT !.pc = "entry"]]

SpecConc == InitConc /\ [][Next]_vars

-----------------------------------------------------------------------------
(* What the claims speak of *)

ParentSide(f) == f.pid \in Pids

\* no fopen() of this call returned NULL and the whitelist can be opened
AllOpenable(f) ==
    /\ "null" \notin {f.logFile, f.oomFile, f.cmdFile, f.wlLogFile}
    /\ wlState = "ok"

\* the arguments of a NUL-delimited command line, in order
RECURSIVE ArgsFrom(_, _)
ArgsFrom(content, pos) ==
    IF pos > Len(content) THEN <<>>
    ELSE LET r == Getdelim(content, pos) IN <<r.arg>> \o ArgsFrom(content, r.pos)

\* the tokens of a text separated by blanks, in order
RECURSIVE Tokens(_)
Tokens(s) ==
    LET r == StrTok(s) IN
    IF r.token = NullStr THEN <<>> ELSE <<r.token>> \o Tokens(r.save)

Range(s) == {s[i] : i \in 1..Len(s)}

\* the candidates the design names: the basename and every later token when
\* the first token begins with a slash, the first token alone otherwise
DesignCandidates(content) ==
    LET args == ArgsFrom(content, 1) IN
    IF args = <<>> THEN {}
    ELSE IF Len(args[1]) > 0 /\ args[1][1] = "/"
    THEN Range(Tokens(AfterSlash(args[1]))) \cup {args[i] : i \in 2..Len(args)}
    ELSE {args[1]}

\* the newline-terminated lines of a file, without their newline
FileLines(f) ==
    { SubSeq(f, i, j - 1) : i \in 1..Len(f), j \in 1..Len(f) } \cap
    { SubSeq(f, ij[1], ij[2] - 1) :
        ij \in { x \in (1..Len(f)) \X (1..Len(f)) :
                   /\ x[1] <= x[2]
                   /\ (x[1] = 1 \/ f[x[1] - 1] = NL)
                   /\ f[x[2]] = NL
                   /\ \A k \in x[1]..(x[2] - 1) : f[k] # NL } }

\* a line that fits one fgets() call together with its newline
InBudget(text) == Len(text) + 1 <= FgetsMax

IsEntry(text) == Len(text) > 0 /\ text[1] # "#"

\* an entry matches a candidate: equality for "!P", P contains C otherwise
EntryMatches(text, c) ==
    /\ IsEntry(text)
    /\ IF text[1] = "!" THEN Tail(text) = c ELSE StrStr(text, c)

HasExactEntry(f, c) == \E text \in FileLines(f) : InBudget(text) /\ text = <<"!">> \o c

HasSubstringEntry(f, c) ==
    \E text \in FileLines(f) :
        InBudget(text) /\ IsEntry(text) /\ text[1] # "!" /\ StrStr(text, c)

DesignExempt(c) == \E text \in FileLines(wl) : InBudget(text) /\ EntryMatches(text, c)

Returned(f) == f.pc = "wl_ret"

-----------------------------------------------------------------------------
(* Claims *)

\* C1: a parent-side fork() whose child stays alive and whose files all open
\* ends by returning, with exactly one score written to the child: -1000 if
\* a candidate of its argument vector classifies Exempt, 1000 otherwise.
\* (Stated for the pids whose /proc paths fit the path buffers.)
C1_OneScoreBeforeReturn ==
    \A t \in Threads :
        LET f == th[t] IN
        (/\ f.pc \in {"done", "crashed"}
         /\ ParentSide(f)
         /\ alive[f.pid]
         /\ PathComplete(f.pid, OomNameLen, FileNameSize)
         /\ PathComplete(f.pid, CmdNameLen, CmdFileNameSize)
         /\ AllOpenable(f))
        => /\ f.pc = "done"
           /\ score[f.pid] =
                << IF \E c \in DesignCandidates(cmdline[f.pid]) : DesignExempt(c)
                   THEN whitelistValue ELSE oomValue >>

\* C2: whenever fork() has returned, the value it returned is the value the
\* real fork() gave: the child's pid, 0 in the child, -1 on failure.
C2_ReturnsWhatForkReturned ==
    \A t \in Threads : th[t].pc = "done" => th[t].ret = th[t].pid

\* C2 witness: fork() returned the child's pid after a whitelist match.
C2_Witness ==
    \E t \in Threads :
        /\ th[t].pc = "done"
        /\ th[t].pid = SmallPid
        /\ th[t].ret = SmallPid
        /\ score[SmallPid] = <<whitelistValue>>

\* C3: on the child side (the real fork() returned 0) fork() returns 0 at
\* once: no /proc probe, no read of the command line, no whitelist check, no
\* /proc file opened and so no score written.
C3_ChildSideReturnsAtOnce ==
    \A t \in Threads :
        LET f == th[t] IN
        (f.pid = 0 /\ f.pc # "idle" /\ f.pc # "entry")
        => /\ f.pc = "done"
           /\ f.ret = 0
           /\ f.probes = 0
           /\ f.reads = 0
           /\ f.checks = <<>>
           /\ f.oomFile = "none"
           /\ f.cmdFile = "none"

\* C3 witness: a child-side call has returned.
C3_Witness ==
    \E t \in Threads : th[t].pc = "done" /\ th[t].pid = 0 /\ th[t].ret = 0

\* C4: with every file openable fork() never crashes, check_wl_config never
\* receives a NULL candidate, and only the argument buffer is freed, once.
C4_NeverCrashes ==
    \A t \in Threads :
        LET f == th[t] IN
        /\ AllOpenable(f) => f.pc # "crashed"
        /\ f.pc \in {"wl_enter", "wl_loop", "wl_ret"} => f.proc_name # NullStr
        /\ f.freed \in {<<>>, <<"cmdArg">>}

\* C5: a log or an oom_score_adj that cannot be opened is skipped: no call
\* crashes on the NULL handle.
C5_OpenFailureSwallowed ==
    \A t \in Threads :
        th[t].pc = "crashed" => th[t].crash \notin {"fprintf(NULL)", "fclose(NULL)"}

\* C6: if the whitelist holds an in-budget line "!P" with P equal to the
\* (non-empty) candidate, check_wl_config returns 1, whatever precedes that
\* line.
C6_ExactEntryExempts ==
    \A t \in Threads :
        LET f == th[t] IN
        (/\ Returned(f)
         /\ wlState = "ok"
         /\ Len(f.proc_name) > 0
         /\ HasExactEntry(wl, f.proc_name))
        => f.wlRet = 1

\* C7: if the whitelist holds an in-budget substring entry that contains the
\* (non-empty) candidate, check_wl_config returns 1, wherever that line
\* stands.
C7_SubstringEntryExempts ==
    \A t \in Threads :
        LET f == th[t] IN
        (/\ Returned(f)
         /\ wlState = "ok"
         /\ Len(f.proc_name) > 0
         /\ HasSubstringEntry(wl, f.proc_name))
        => f.wlRet = 1

\* C8: check_wl_config returns 0 whenever no line of the whitelist is an
\* entry that matches the candidate (blank and '#' lines are no entries).
C8_NoMatchIsStandard ==
    \A t \in Threads :
        LET f == th[t] IN
        (Returned(f) /\ ~ \E text \in FileLines(wl) : EntryMatches(text, f.proc_name))
        => f.wlRet = 0

\* C9: every value written to an oom_score_adj is 1000 or -1000; -1000 is
\* written only after a candidate of that process was classified Exempt and
\* 1000 only after every candidate checked for it was classified Standard.
C9_ScoresFollowClassification ==
    \A p \in Pids : \A i \in 1..Len(score[p]) :
        /\ score[p][i] \in {oomValue, whitelistValue}
        /\ \E t \in Threads :
             /\ th[t].pid = p
             /\ score[p][i] = whitelistValue
                  => \E k \in 1..Len(th[t].checks) : th[t].checks[k][2] = 1
             /\ score[p][i] = oomValue
                  => \A k \in 1..Len(th[t].checks) : th[t].checks[k][2] = 0

\* C9 witness: 1000 was written after two candidates were classified Standard.
C9_Witness ==
    \E t \in Threads :
        /\ th[t].pid = SmallPid
        /\ score[SmallPid] = <<oomValue>>
        /\ Len(th[t].checks) >= 2

\* C10: a chunk read without a line terminator never makes check_wl_config
\* return 1: the chunk whose entry matched ends with a newline.
C10_UnterminatedNeverExempts ==
    \A t \in Threads :
        LET f == th[t] IN
        (Returned(f) /\ f.wlRet = 1)
        => /\ f.hit # <<>>
           /\ f.hit[Len(f.hit)] = NL
           /\ \E text \in FileLines(wl) : f.hit = Append(text, NL) \/
                 (Len(text) >= FgetsMax /\ StrStr(Append(text, NL), f.hit))

\* C10 witness: the file ends with an unterminated line whose text contains
\* the candidate, that chunk was read, and the call returned 0.
C10_Witness ==
    \E t \in Threads :
        LET f == th[t] IN
        /\ Returned(f) /\ f.wlRet = 0
        /\ wl # <<>> /\ wl[Len(wl)] # NL
        /\ f.proc_name = <<"a">>
        /\ f.wlPos > Len(wl)
        /\ wl[Len(wl)] = "a"
        /\ (Len(wl) = 1 \/ wl[Len(wl) - 1] = NL)

\* C11: the line read right after a chunk that was cut by the buffer (the
\* tail of an over-long line) is never used for matching, also when entries
\* were processed before it: a match is never on such a tail.
C11_RemainderRejected ==
    \A t \in Threads :
        LET f     == th[t]
            start == f.wlPos - Len(f.hit)
        IN  (Returned(f) /\ f.wlRet = 1 /\ f.last # Uninit)
            => (start = 1 \/ wl[start - 1] = NL)

\* C12: with the whitelist absent or unopenable every candidate is Standard,
\* so a live child of a call whose other files all open is written 1000,
\* once, and never -1000.
C12_NoWhitelistMeansStandard ==
    \A t \in Threads :
        LET f == th[t] IN
        wlState # "ok"
        => /\ \A k \in 1..Len(f.checks) : f.checks[k][2] = 0
           /\ \A p \in Pids : whitelistValue \notin Range(score[p])
           /\ (/\ f.pc \in {"done", "crashed"}
               /\ ParentSide(f)
               /\ alive[f.pid]
               /\ "null" \notin {f.logFile, f.oomFile, f.cmdFile, f.wlLogFile})
              => (f.pc = "done" /\ score[f.pid] = <<oomValue>>)

\* C13: a child that is gone at the first probe, or between the probes, gives
\* not-found: the call returns the child's pid at once, no candidate was
\* checked, nothing was read and no score was written.
C13_GoneChildIsNotFound ==
    \A t \in Threads :
        LET f == th[t] IN
        f.gone # 0
        => /\ f.pc = "done"
           /\ f.ret = f.pid
           /\ f.probes = f.gone
           /\ f.checks = <<>>
           /\ f.reads = 0
           /\ f.cmdFile = "none"
           /\ \A p \in Pids : score[p] = <<>>

\* C13 witness: the child vanished between the two probes.
C13_Witness ==
    \E t \in Threads :
        /\ th[t].gone = 2
        /\ th[t].pc = "done"
        /\ th[t].pid = SmallPid
        /\ th[t].oomFile = "open"

\* the strings of a command line that its own pipeline can take from it:
\* its arguments and the blank-separated tokens of their basenames
OwnStrings(content) ==
    LET args == ArgsFrom(content, 1) IN
    Range(args) \cup UNION { Range(Tokens(AfterSlash(args[i]))) : i \in 1..Len(args) }

\* C14: two concurrent fork() calls with distinct children do not interfere:
\* every candidate a pipeline examines comes from its own child's command
\* line (or is the end-of-tokens NULL), whatever the other pipeline does.
C14_NoInterference ==
    \A t \in Threads :
        LET f == th[t] IN
        ParentSide(f)
        => /\ \A k \in 1..Len(f.checks) :
                f.checks[k][1] \in OwnStrings(cmdline[f.pid]) \cup {NullStr}
           /\ f.pc \in {"wl_enter", "wl_loop"}
                => f.proc_name \in OwnStrings(cmdline[f.pid]) \cup {NullStr}

\* the arguments of a command line: its pieces between the NUL bytes
RECURSIVE SplitNul(_)
SplitNul(c) ==
    IF c = <<>> THEN <<>>
    ELSE LET n == IndexFrom(c, NUL, 1) IN
         IF n = 0 THEN <<c>>
         ELSE <<SubSeq(c, 1, n - 1)>> \o SplitNul(SubSeq(c, n + 1, Len(c)))

BeginsWithSlash(arg) == Len(arg) > 0 /\ arg[1] = "/"

FirstArgIsPath(f) ==
    /\ ParentSide(f)
    /\ SplitNul(cmdline[f.pid]) # <<>>
    /\ BeginsWithSlash(SplitNul(cmdline[f.pid])[1])

FirstArgIsPlain(f) ==
    /\ ParentSide(f)
    /\ SplitNul(cmdline[f.pid]) # <<>>
    /\ ~ BeginsWithSlash(SplitNul(cmdline[f.pid])[1])

\* the candidates of the checks a call has finished, in order
Checked(f) == [k \in 1..Len(f.checks) |-> f.checks[k][1]]

IsPrefix(a, b) == Len(a) <= Len(b) /\ a = SubSeq(b, 1, Len(a))

\* C15: when the first token begins with '/', the basename is a candidate:
\* it is the first string passed to check_wl_config, and a whitelist entry
\* that matches it makes a live child Exempt (-1000 written, fork() returns).
C15_BasenameIsCandidate ==
    \A t \in Threads :
        LET f    == th[t]
            toks == Tokens(AfterSlash(SplitNul(cmdline[f.pid])[1]))
        IN  (FirstArgIsPath(f) /\ toks # <<>>)
            => /\ (f.pc \in {"wl_enter", "wl_loop"} /\ f.checks = <<>>)
                    => f.proc_name = toks[1]
               /\ (/\ f.pc \in {"done", "crashed"}
                   /\ alive[f.pid]
                   /\ AllOpenable(f)
                   /\ PathComplete(f.pid, OomNameLen, FileNameSize)
                   /\ PathComplete(f.pid, CmdNameLen, CmdFileNameSize)
                   /\ DesignExempt(toks[1]))
                  => (f.pc = "done" /\ score[f.pid] = <<whitelistValue>>)

\* C16 as claimed: when the first token does not begin with '/', it is the
\* only string ever passed to check_wl_config.
C16_OnlyFirstTokenChecked ==
    \A t \in Threads :
        LET f == th[t] IN
        FirstArgIsPlain(f)
        => /\ \A k \in 1..Len(f.checks) :
                f.checks[k][1] = SplitNul(cmdline[f.pid])[1]
           /\ Len(f.checks) <= 1
           /\ f.pc \in {"wl_enter", "wl_loop"} => f.checks = <<>>

\* what fork() passes to check_wl_config for one argument: the argument
\* itself, or, when it begins with '/', the tokens of its basename after
\* the first one and then the NULL that ends them
PassedFor(arg) ==
    IF BeginsWithSlash(arg)
    THEN LET toks == Tokens(AfterSlash(arg)) IN
         IF toks = <<>> THEN <<>> ELSE Tail(toks) \o <<NullStr>>
    ELSE <<arg>>

RECURSIVE PassedForAll(_)
PassedForAll(args) ==
    IF args = <<>> THEN <<>> ELSE PassedFor(Head(args)) \o PassedForAll(Tail(args))

\* C16 as amended: when the first token does not begin with '/', it is the
\* first candidate, and every later argument is a candidate as well, in
\* order, until one is Exempt: the strings checked are a prefix of what the
\* whole vector yields, all of it once 1000 was written to a live child, and
\* -1000 is written as soon as one of them, first or later, is Exempt.
C16_EveryArgumentChecked ==
    \A t \in Threads :
        LET f   == th[t]
            all == PassedForAll(SplitNul(cmdline[f.pid]))
        IN  FirstArgIsPlain(f)
            => /\ IsPrefix(Checked(f), all)
               /\ f.pc \in {"wl_enter", "wl_loop"}
                    => f.proc_name = all[Len(f.checks) + 1]
               /\ (f.pc = "done" /\ alive[f.pid] /\ score[f.pid] = <<oomValue>>)
                    => Checked(f) = all
               /\ \A k \in 1..Len(f.checks) :
                    f.checks[k][2] = 1
                    => /\ k = Len(f.checks)
                       /\ f.pc \in {"wl_ret", "done", "crashed"}
                       /\ (f.pc = "done" /\ alive[f.pid])
                            => score[f.pid] = <<whitelistValue>>

\* C16 witness: the first argument was Standard, a later argument was checked
\* and found Exempt, and -1000 was written.
C16_Witness ==
    \E t \in Threads :
        LET f == th[t] IN
        /\ FirstArgIsPlain(f)
        /\ f.pc = "done"
        /\ Len(f.checks) = 2
        /\ f.checks[1][2] = 0
        /\ f.checks[2] = <<SplitNul(cmdline[f.pid])[2], 1>>
        /\ score[f.pid] = <<whitelistValue>>

\* C17: a parent-side call probes, then classifies, then writes, each at most
\* once and in that order; the number of reads is bounded by the argument
\* vector; and the call ends in NotFound or Written, never in a crash, when
\* every file it opens can be opened.
C17_LifecycleTerminates ==
    \A t \in Threads :
        LET f == th[t] IN
        ParentSide(f)
        => /\ f.probes <= 2
           /\ f.reads <= Len(SplitNul(cmdline[f.pid])) + 1
           /\ Len(score[f.pid]) <= 1
           /\ (f.reads > 0 \/ f.checks # <<>>) => f.probes = 2
           /\ score[f.pid] # <<>>
                => (f.pc \in {"done", "crashed"} /\ f.probes = 2 /\ f.reads > 0)
           /\ AllOpenable(f) => f.pc # "crashed"

\* C18: every pattern check_wl_config compares with the candidate is
\* non-empty and holds no line terminator.
C18_PatternNonEmpty ==
    \A t \in Threads :
        LET f == th[t] IN
        f.pat # NullStr => (Len(f.pat) > 0 /\ NL \notin Range(f.pat))

\* C19: when a call has returned, every handle it opened is closed: fork()
\* returns with no handle open, and check_wl_config returns with its log and
\* the whitelist closed.
C19_HandlesClosed ==
    \A t \in Threads :
        LET f == th[t] IN
        /\ f.pc = "done"
             => /\ f.nopen = 0
                /\ "open" \notin {f.logFile, f.oomFile, f.cmdFile}
        /\ f.pc \in {"wl_ret", "done"}
             => "open" \notin {f.wlLogFile, f.whitelist_file}

\* C20: for every pid the two paths address the child's own files: a probe
\* made while the child is there finds the file, whatever the number of
\* digits of the pid.
C20_PathsAddressChild ==
    \A t \in Threads :
        LET f == th[t] IN
        (ParentSide(f) /\ f.gone = 0)
        => /\ f.probes >= 1 => f.oomFile # "none"
           /\ f.probes = 2 => f.cmdFile # "none"
           /\ f.pc = "done" => f.probes = 2

====
